---- MODULE Spec2Model ----
(***************************************************************************)
(* PlanningAgent (src/src/PlanningAgent.py): an agent that validates a     *)
(* goal, plans three steps for it, executes each step as a Bernoulli trial *)
(* recorded in its history, names the failed steps and summarises the      *)
(* history.                                                                *)
(*                                                                         *)
(* Representation.  A Python string is a sequence of one-character         *)
(* strings.  A float in [0,1] is a whole number of tenths (One is 1.0), so *)
(* that 0.7, the boundary sample r = p and values outside [0,1] all exist. *)
(* The quotient successful/total is the fraction in lowest terms           *)
(* <<numerator, denominator>>: two quotients are equal floats exactly when *)
(* their lowest terms are equal.  Every call leaves a call record: op (the *)
(* method called), arg (its argument), ret (what it returned or raised)    *)
(* and draws (the values random.random() returned during the call).       *)
(***************************************************************************)
EXTENDS Integers, Sequences, FiniteSets

\* success_rate, history: the agent's two attributes.
\* op, arg, ret, draws:   the record of the last call.
\* passed, won:           how many steps act has been passed so far, and how
\*                        many of the results it returned succeeded.
\* observed:              the summary the caller last saw (see Observe).
VARIABLES success_rate, history, op, arg, ret, draws, passed, won, observed

vars == <<success_rate, history, op, arg, ret, draws, passed, won, observed>>

\* ------------------------------------------------------------------ bounds

\* Longest goal string passed to perceive_goal and plan.
MaxGoalLen == 2
\* Most steps in one act call, most results in one reflect call.
MaxSteps == 2
\* Longest history the API-driven specification lets act build.
MaxHistory == 2
\* How far outside [0.0, 1.0] the constructor's success_rate argument goes.
MaxOver == 2

\* ------------------------------------------------------- program constants

\* 0.0 and 1.0 of max(0.0, min(1.0, success_rate)), in tenths.
Zero == 0
One == 10
\* The default success_rate = 0.7, in tenths.
DefaultSuccessRate == 7

\* ------------------------------------------------------------------ inputs

\* Characters str.strip() removes.
Whitespace == {" ", "\t"}
Chars == {"a"} \cup Whitespace

SeqsUpTo(S, n) == UNION {[1..k -> S] : k \in 0..n}

Str(s) == [type |-> "str", truthy |-> s # <<>>, chars |-> s]
\* None, 0, 5, [] and ["x"]: values that are not strings.
NonStrings ==
    {[type |-> "NoneType", truthy |-> FALSE, chars |-> <<>>],
     [type |-> "int", truthy |-> FALSE, chars |-> <<>>],
     [type |-> "int", truthy |-> TRUE, chars |-> <<>>],
     [type |-> "list", truthy |-> FALSE, chars |-> <<>>],
     [type |-> "list", truthy |-> TRUE, chars |-> <<>>]}

GoalStrings == SeqsUpTo(Chars, MaxGoalLen)
GoalInputs == {Str(s) : s \in GoalStrings} \cup NonStrings

StepPool == {<<"a">>, <<"b">>}
StepInputs == SeqsUpTo(StepPool, MaxSteps)
ResultInputs == SeqsUpTo(StepPool \X BOOLEAN, MaxSteps)

\* random.random() returns a float in [0.0, 1.0).
Samples == Zero..(One - 1)

Omitted == [given |-> FALSE, val |-> 0]
Given(x) == [given |-> TRUE, val |-> x]
\* success_rate arguments: omitted, 0.0, 0.3, 0.7, 1.0, and up to MaxOver tenths
\* below 0.0 and above 1.0.
RateInputs ==
    {Omitted}
    \cup {Given(x) : x \in {Zero, 3, DefaultSuccessRate, One}}
    \cup {Given(x) : x \in (Zero - MaxOver)..(Zero - 1) \cup (One + 1)..(One + MaxOver)}

\* ----------------------------------------------------------- return values

Return(v) == [kind |-> "return", val |-> v]
Raise(e, msg) == [kind |-> e, val |-> msg]
NoValue == <<>>

\* What the caller has seen of the summary: val is the last summary returned
\* with no act call since (valid), and repeated says that the last summary
\* call was made while an earlier one was still valid.
NothingObserved == [valid |-> FALSE, val |-> NoValue, repeated |-> FALSE]
Observe(summary, seen) == [valid |-> TRUE, val |-> summary, repeated |-> seen.valid]

\* ---------------------------------------------------------------- __init__

Max(a, b) == IF a >= b THEN a ELSE b
Min(a, b) == IF a <= b THEN a ELSE b

ClampNoUpper(x) == Max(Zero, x)

Clamp(x) == Max(Zero, Min(One, x))

__init__(a) ==
    /\ history = <<>>
    /\ success_rate = Clamp(IF a.given THEN a.val ELSE DefaultSuccessRate)
    /\ op = "__init__"
    /\ arg = a
    /\ ret = Return(NoValue)
    /\ draws = <<>>
    /\ passed = 0
    /\ won = 0
    /\ observed = NothingObserved

Init == \E a \in RateInputs : __init__(a)

\* The call record every method leaves behind.
Called(o, a, r, d) ==
    /\ op' = o
    /\ arg' = a
    /\ ret' = r
    /\ draws' = d

\* ----------------------------------------------------------- perceive_goal

RECURSIVE LStrip(_)
LStrip(s) ==
    IF s = <<>> THEN s
    ELSE IF Head(s) \in Whitespace THEN LStrip(Tail(s)) ELSE s

RECURSIVE RStrip(_)
RStrip(s) ==
    IF s = <<>> THEN s
    ELSE IF s[Len(s)] \in Whitespace THEN RStrip(SubSeq(s, 1, Len(s) - 1)) ELSE s

StripLeftOnly(s) == LStrip(s)

\* str.strip()
Strip(s) == RStrip(LStrip(s))

\* not goal or not isinstance(goal, str) or not goal.strip(), left to right
Rejected(goal) ==
    IF ~goal.truthy THEN TRUE
    ELSE IF goal.type # "str" THEN TRUE
    ELSE Strip(goal.chars) = <<>>

perceive_goal(goal) ==
    /\ Called("perceive_goal", goal,
              IF Rejected(goal)
              THEN Raise("ValueError", "Goal must be a non-empty string")
              ELSE Return(Strip(goal.chars)),
              <<>>)
    /\ UNCHANGED <<success_rate, history, passed, won, observed>>

\* -------------------------------------------------------------------- plan

ResearchPrefix == <<"R", "e", "s", "e", "a", "r", "c", "h", " ">>
DraftPrefix ==
    <<"D", "r", "a", "f", "t", " ", "o", "u", "t", "l", "i", "n", "e", " ",
      "f", "o", "r", " ">>
CreatePrefix ==
    <<"C", "r", "e", "a", "t", "e", " ", "f", "i", "n", "a", "l", " ",
      "o", "u", "t", "p", "u", "t", " ", "f", "o", "r", " ">>

PlanStepsSwapped(goal) ==
    <<DraftPrefix \o goal, ResearchPrefix \o goal, CreatePrefix \o goal>>

PlanSteps(goal) ==
    <<ResearchPrefix \o goal, DraftPrefix \o goal, CreatePrefix \o goal>>

plan(goal) ==
    /\ Called("plan", goal, Return(PlanSteps(goal)), <<>>)
    /\ UNCHANGED <<success_rate, history, passed, won, observed>>

\* --------------------------------------------------------------------- act

SucceedsOrEqual(r, p) == r <= p

\* random.random() < self.success_rate
Succeeds(r, p) == r < p

ResultsReversed(steps, rs, p) ==
    [i \in 1..Len(steps) |->
        <<steps[Len(steps) + 1 - i], Succeeds(rs[Len(steps) + 1 - i], p)>>]

\* [(step, random.random() < self.success_rate) for step in steps], the
\* i-th call of random.random() returning rs[i]
Results(steps, rs, p) ==
    [i \in 1..Len(steps) |-> <<steps[i], Succeeds(rs[i], p)>>]

ExtendReplacing(h, results) == results

\* self.history.extend(results)
Extend(h, results) == h \o results

Wins(results) == Cardinality({i \in 1..Len(results) : results[i][2]})

act(steps, rs) ==
    LET results == Results(steps, rs, success_rate) IN
    /\ history' = Extend(history, results)
    /\ Called("act", steps, Return(results), rs)
    /\ passed' = passed + Len(steps)
    /\ won' = won + Wins(results)
    /\ observed' = NothingObserved
    /\ UNCHANGED success_rate

\* ----------------------------------------------------------------- reflect

RECURSIVE RetriesKeepingSuccesses(_)
RetriesKeepingSuccesses(results) ==
    IF results = <<>> THEN <<>>
    ELSE (IF Head(results)[2] THEN <<Head(results)[1]>> ELSE <<>>)
         \o RetriesKeepingSuccesses(Tail(results))

\* [step for step, success in results if not success]
RECURSIVE Retries(_)
Retries(results) ==
    IF results = <<>> THEN <<>>
    ELSE (IF ~Head(results)[2] THEN <<Head(results)[1]>> ELSE <<>>)
         \o Retries(Tail(results))

reflect(results) ==
    /\ Called("reflect", results, Return(Retries(results)), <<>>)
    /\ UNCHANGED <<success_rate, history, passed, won, observed>>

\* --------------------------------------------------- get_execution_summary

RECURSIVE GCD(_, _)
GCD(a, b) == IF b = 0 THEN a ELSE GCD(b, a % b)

\* a / b for b > 0, in lowest terms
Quotient(a, b) == <<a \div GCD(a, b), b \div GCD(a, b)>>
\* 0.0
ZeroFloat == <<0, 1>>

CountFailures(h) == Cardinality({i \in 1..Len(h) : ~h[i][2]})

\* sum(1 for _, success in self.history if success)
CountSuccessful(h) == Cardinality({i \in 1..Len(h) : h[i][2]})

Summary(h) ==
    IF h = <<>>
    THEN [total |-> 0, successful |-> 0, failed |-> 0, success_rate |-> ZeroFloat]
    ELSE LET total == Len(h)
             successful == CountSuccessful(h)
             failed == total - successful
         IN [total |-> total, successful |-> successful, failed |-> failed,
             success_rate |->
                 IF total > 0 THEN Quotient(successful, total) ELSE ZeroFloat]

get_execution_summary_resetting ==
    /\ Called("get_execution_summary", NoValue, Return(Summary(history)), <<>>)
    /\ observed' = Observe(Summary(history), observed)
    /\ history' = <<>>
    /\ UNCHANGED <<success_rate, passed, won>>

get_execution_summary ==
    /\ Called("get_execution_summary", NoValue, Return(Summary(history)), <<>>)
    /\ observed' = Observe(Summary(history), observed)
    /\ UNCHANGED <<success_rate, history, passed, won>>

\* ------------------------------------------------- the API, in any order

CallPerceiveGoal == \E goal \in GoalInputs : perceive_goal(goal)
CallPlan == \E goal \in GoalStrings : plan(goal)
CallAct ==
    \E steps \in StepInputs :
        /\ Len(history) + Len(steps) <= MaxHistory
        /\ \E rs \in [1..Len(steps) -> Samples] : act(steps, rs)
CallReflect == \E results \in ResultInputs : reflect(results)
CallSummary == get_execution_summary

Next == CallPerceiveGoal \/ CallPlan \/ CallAct \/ CallReflect \/ CallSummary

Spec == Init /\ [][Next]_vars

\* ------------------------------------------------------ the __main__ script

\* "Write AI blog post"
MainGoal ==
    <<"W", "r", "i", "t", "e", " ", "A", "I", " ", "b", "l", "o", "g", " ",
      "p", "o", "s", "t">>

MainPerceive == op = "__init__" /\ perceive_goal(Str(MainGoal))
MainPlan == op = "perceive_goal" /\ ret.kind = "return" /\ plan(ret.val)
MainAct ==
    /\ op = "plan"
    /\ \E rs \in [1..Len(ret.val) -> Samples] : act(ret.val, rs)
MainReflect == op = "act" /\ reflect(ret.val)
MainSummary == op = "reflect" /\ get_execution_summary

MainNext == MainPerceive \/ MainPlan \/ MainAct \/ MainReflect \/ MainSummary

MainSpec == Init /\ [][MainNext]_vars

\* ================================================================= claims

IsPrefix(s, t) == Len(s) <= Len(t) /\ SubSeq(t, 1, Len(s)) = s

\* C1: get_execution_summary returns total = length(history) = the number of
\* steps passed to all act calls so far, successful = the number of those
\* results that succeeded, failed = total - successful, and success_rate =
\* successful / total when total > 0; with nothing executed it returns
\* {0, 0, 0, 0.0}.
C1_SummaryCounts ==
    op = "get_execution_summary" =>
        LET s == ret.val IN
        /\ ret.kind = "return"
        /\ s.total = Len(history)
        /\ s.total = passed
        /\ s.successful = won
        /\ s.failed = passed - won
        /\ s.successful + s.failed = s.total
        /\ IF passed > 0
           THEN /\ s.success_rate[2] > 0
                /\ s.success_rate[1] * passed = won * s.success_rate[2]
           ELSE s = [total |-> 0, successful |-> 0, failed |-> 0,
                     success_rate |-> <<0, 1>>]

C1_Witness ==
    /\ op = "get_execution_summary"
    /\ passed = 2
    /\ won = 1
    /\ ret.val.success_rate = <<1, 2>>

\* C2: history is empty at construction and every step of every operation
\* leaves the previous history a prefix of the next one.
C2_HistoryAppendOnly == (history = <<>>) /\ [][IsPrefix(history, history')]_vars

C2_Witness == op = "act" /\ Len(arg) = 1 /\ Len(history) = 2

\* C3: act returns one result per input step, with the input steps in the same
\* order, and appends exactly the returned results to history; an empty input
\* returns the empty list and leaves history as it was.
C3_ActAppendsResults ==
    [][op' = "act" =>
        /\ ret'.kind = "return"
        /\ Len(ret'.val) = Len(arg')
        /\ \A i \in 1..Len(arg') : ret'.val[i][1] = arg'[i]
        /\ history' = history \o ret'.val
        /\ Len(history') = Len(history) + Len(arg')
        /\ (arg' = <<>> => ret'.val = <<>> /\ history' = history)]_vars

C3_Witness ==
    /\ op = "act"
    /\ Len(arg) = 2
    /\ arg[1] # arg[2]
    /\ history = ret.val

\* C4: act draws exactly one sample in [0,1) per step, and a step's result
\* succeeded iff its sample is strictly less than success_rate.
C4_SucceedsIffSampleBelowRate ==
    op = "act" =>
        /\ Len(draws) = Len(arg)
        /\ Len(ret.val) = Len(arg)
        /\ \A i \in 1..Len(arg) :
            /\ draws[i] >= Zero
            /\ draws[i] < One
            /\ ret.val[i][2] <=> (draws[i] < success_rate)

C4_Witness ==
    /\ op = "act"
    /\ \E i \in 1..Len(arg) : draws[i] = success_rate /\ ~ret.val[i][2]
    /\ \E i \in 1..Len(arg) : draws[i] + 1 = success_rate /\ ret.val[i][2]

\* The position in results of the k-th result that failed.
KthFailed(results, k) ==
    CHOOSE i \in 1..Len(results) :
        /\ ~results[i][2]
        /\ Cardinality({j \in 1..i : ~results[j][2]}) = k

\* C5: reflect returns exactly the steps of its argument whose succeeded flag
\* is false, in their original order, and leaves history unchanged.
C5_ReflectReturnsFailedSteps ==
    /\ [](op = "reflect" =>
            /\ ret.kind = "return"
            /\ Len(ret.val) = Cardinality({i \in 1..Len(arg) : ~arg[i][2]})
            /\ \A k \in 1..Len(ret.val) : ret.val[k] = arg[KthFailed(arg, k)][1])
    /\ [][op' = "reflect" => history' = history]_vars

C5_Witness ==
    /\ op = "reflect"
    /\ Len(arg) = 2
    /\ arg[1][2]
    /\ ~arg[2][2]
    /\ ret.val = <<arg[2][1]>>
    /\ history # <<>>

\* C6: perceive_goal returns the trimmed goal for every string that is not
\* empty after trimming and raises ValueError for every empty, whitespace-only,
\* absent or non-string input; either way history and success_rate are
\* unchanged.
C6_PerceiveGoal ==
    /\ [](op = "perceive_goal" =>
            IF arg.type = "str" /\ \E i \in 1..Len(arg.chars) : arg.chars[i] \notin Whitespace
            THEN /\ ret.kind = "return"
                 /\ ret.val # <<>>
                 /\ ret.val[1] \notin Whitespace
                 /\ ret.val[Len(ret.val)] \notin Whitespace
                 /\ \E i \in 1..Len(arg.chars) :
                        /\ SubSeq(arg.chars, i, i + Len(ret.val) - 1) = ret.val
                        /\ \A j \in 1..Len(arg.chars) :
                               (j < i \/ j >= i + Len(ret.val)) => arg.chars[j] \in Whitespace
            ELSE ret.kind = "ValueError")
    /\ [][op' = "perceive_goal" =>
            history' = history /\ success_rate' = success_rate]_vars

C6_Witness ==
    /\ op = "perceive_goal"
    /\ ret.kind = "return"
    /\ Len(arg.chars) = 2
    /\ Len(ret.val) = 1
    /\ arg.chars[2] \in Whitespace
    /\ history # <<>>

\* C7: a get_execution_summary call made while an earlier summary is still
\* valid (no act call since) returns that same summary, whatever other calls
\* came in between, and get_execution_summary leaves history unchanged.
C7_SummaryIdempotent ==
    [][op' = "get_execution_summary" =>
        /\ history' = history
        /\ (observed.valid => ret'.val = observed.val)]_vars

C7_Witness ==
    /\ op = "get_execution_summary"
    /\ observed.repeated
    /\ Len(history) = 2
    /\ ret.val = observed.val

\* C8: plan(g) returns exactly "Research " + g, "Draft outline for " + g and
\* "Create final output for " + g, in this order, for every string g, and
\* leaves history and success_rate unchanged.
C8_PlanThreeSteps ==
    /\ [](op = "plan" =>
            /\ ret.kind = "return"
            /\ Len(ret.val) = 3
            /\ ret.val[1] = <<"R", "e", "s", "e", "a", "r", "c", "h", " ">> \o arg
            /\ ret.val[2] = <<"D", "r", "a", "f", "t", " ", "o", "u", "t", "l", "i", "n", "e",
                           " ", "f", "o", "r", " ">> \o arg
            /\ ret.val[3] = <<"C", "r", "e", "a", "t", "e", " ", "f", "i", "n", "a", "l", " ",
                           "o", "u", "t", "p", "u", "t", " ", "f", "o", "r", " ">> \o arg)
    /\ [][op' = "plan" => history' = history /\ success_rate' = success_rate]_vars

C8_Witness ==
    /\ op = "plan"
    /\ Len(arg) = 2
    /\ Len(ret.val[1]) = 11
    /\ history # <<>>

\* C9: the constructor stores 0.0 for a success_rate below 0, 1.0 for one above
\* 1, and the value itself inside [0,1] (0.7 when omitted); the stored
\* success_rate lies in [0,1] in every state and no operation changes it.
C9_SuccessRateClamped ==
    /\ [](/\ success_rate >= 0
          /\ success_rate <= 10
          /\ op = "__init__" =>
                LET x == IF arg.given THEN arg.val ELSE 7 IN
                success_rate = IF x < 0 THEN 0 ELSE IF x > 10 THEN 10 ELSE x)
    /\ [][success_rate' = success_rate]_vars

C9_Witness ==
    /\ op = "__init__"
    /\ arg.given
    /\ arg.val > One
    /\ success_rate = One

\* The three steps planned for "Write AI blog post".
MainStep1 ==
    <<"R", "e", "s", "e", "a", "r", "c", "h", " ", "W", "r", "i", "t",
      "e", " ", "A", "I", " ", "b", "l", "o", "g", " ", "p", "o", "s",
      "t">>
MainStep2 ==
    <<"D", "r", "a", "f", "t", " ", "o", "u", "t", "l", "i", "n", "e",
      " ", "f", "o", "r", " ", "W", "r", "i", "t", "e", " ", "A", "I",
      " ", "b", "l", "o", "g", " ", "p", "o", "s", "t">>
MainStep3 ==
    <<"C", "r", "e", "a", "t", "e", " ", "f", "i", "n", "a", "l", " ",
      "o", "u", "t", "p", "u", "t", " ", "f", "o", "r", " ", "W", "r",
      "i", "t", "e", " ", "A", "I", " ", "b", "l", "o", "g", " ", "p",
      "o", "s", "t">>

\* C10: the script on "Write AI blog post" with a fresh agent: with success
\* rate 1.0 all three steps succeed, reflect returns the empty list and the
\* summary is {3, 3, 0, 1.0}; with success rate 0.0 all three fail, reflect
\* returns the three steps in plan order and the summary is {3, 0, 3, 0.0};
\* whatever the samples drawn.
C10_EndToEnd ==
    /\ op = "perceive_goal" => ret = Return(MainGoal)
    /\ op = "plan" => ret = Return(<<MainStep1, MainStep2, MainStep3>>)
    /\ success_rate = One =>
        /\ op = "act" =>
            ret.val = <<<<MainStep1, TRUE>>, <<MainStep2, TRUE>>, <<MainStep3, TRUE>>>>
        /\ op = "reflect" => ret.val = <<>>
        /\ op = "get_execution_summary" =>
            ret.val = [total |-> 3, successful |-> 3, failed |-> 0,
                       success_rate |-> <<1, 1>>]
    /\ success_rate = Zero =>
        /\ op = "act" =>
            ret.val = <<<<MainStep1, FALSE>>, <<MainStep2, FALSE>>, <<MainStep3, FALSE>>>>
        /\ op = "reflect" => ret.val = <<MainStep1, MainStep2, MainStep3>>
        /\ op = "get_execution_summary" =>
            ret.val = [total |-> 3, successful |-> 0, failed |-> 3,
                       success_rate |-> <<0, 1>>]

C10_Witness ==
    /\ op = "get_execution_summary"
    /\ success_rate = Zero
    /\ ret.val.failed = 3
    /\ Len(history) = 3

====
